---- MODULE Spec2Model ----
(***************************************************************************)
(* Secure order pricing and Redsys payment settlement of total-keepers-be. *)
(* Money is counted in euro cents; discount values in hundredths (of a     *)
(* percent or of a euro), as the Numeric(10,2) columns store them.         *)
(***************************************************************************)
EXTENDS Integers, Sequences, FiniteSets, TLC

VARIABLES
    client,               \* RedsysPaymentService.client: TRUE a RedirectClient, FALSE the mock
    now,                  \* the clock (datetime.now), in ticks
    products,             \* table products
    stock,                \* table product_sizes, per (product, size)
    discount_codes,       \* table discount_codes
    orders,               \* table orders, each row with its order_items
    payments,             \* table payments
    redsys_transactions,  \* table redsys_transactions
    emails,               \* success notifications handed to EmailService
    req,                  \* the HTTP request being answered
    resp,                 \* the HTTP response to it
    workers               \* concurrent ProductService.reduce_stock calls

vars == <<client, now, products, stock, discount_codes, orders, payments,
          redsys_transactions, emails, req, resp, workers>>

----------------------------------------------------------------------------
(* Bounds of the exploration *)

MaxOrders == 1
MaxItems == 2
MaxTime == 1
MaxPayments == 2
MaxEmails == 2
MaxWorkers == 2
MaxStock == 2

----------------------------------------------------------------------------
(* Program constants *)

free_shipping_threshold == 2
standard_shipping_cost == 300
PriceTolerance == 1
MaxQuantity == 99
APPROVED == "0000"

NoPrice == -1          \* discount_price IS NULL
NoDate == -1           \* start_date / end_date IS NULL
NoSize == "None"       \* selected_size is None
NoPromo == ""          \* promo_code is None or empty
NoCode == "NULL"       \* no discount_codes row
NoResponse == "NULL"   \* response_ds_response IS NULL
NoReference == [kind |-> "NULL", timestamp |-> 0, payment_hash |-> 0]
                       \* payment_reference / transaction id IS NULL

Products == {"p1", "p2"}
Sizes == {"8"}

RECURSIVE SumLineTotals(_, _)
\* sum(item["line_total"] for item in validated_items)
SumLineTotals(validated_items, i) ==
    IF i > Len(validated_items) THEN 0
    ELSE validated_items[i].line_total + SumLineTotals(validated_items, i + 1)

RECURSIVE SumQuantities(_, _)
\* sum(item["quantity"] for item in validated_items)
SumQuantities(validated_items, i) ==
    IF i > Len(validated_items) THEN 0
    ELSE validated_items[i].quantity + SumQuantities(validated_items, i + 1)

Min(a, b) == IF a <= b THEN a ELSE b
Abs(a) == IF a < 0 THEN -a ELSE a

----------------------------------------------------------------------------
(* Product.get_current_price and the str methods the name check uses *)

get_current_price(product) ==
    IF product.discount_price # NoPrice THEN product.discount_price ELSE product.price

\* str.lower().strip() on the names that occur
LowerStrip(s) ==
    CASE s = "Glove" -> "glove"
      [] s = "Pro Glove" -> "pro glove"
      [] s = "  PRO GLOVE " -> "pro glove"
      [] s = "Other" -> "other"
      [] OTHER -> s

\* str.strip() / case folding on the promo codes that occur
Strip(s) ==
    CASE s = " save10 " -> "save10"
      [] OTHER -> s

Fold(s) ==
    CASE s = "save10" -> "SAVE10"
      [] OTHER -> s

----------------------------------------------------------------------------
(* SecureOrderService._validate_order_items *)

\* the comparison with a tolerance of two cents
PriceMismatch_Wide(current_price, received_price, strict) ==
    Abs(current_price - received_price) > 2 * PriceTolerance

\* abs(current_price - received_price) > 0.01 on binary floats: decided by the
\* cent values except at a difference of exactly one cent, where the float
\* error of the subtraction decides (strict: the difference came out above 0.01)
PriceMismatch(current_price, received_price, strict) ==
    LET price_difference == Abs(current_price - received_price)
    IN  \/ price_difference > PriceTolerance
        \/ price_difference = PriceTolerance /\ strict

ValidationError(detail) ==
    [ok |-> FALSE, status_code |-> 400, detail |-> detail, items |-> << >>]

RECURSIVE ValidateFrom(_, _, _, _, _)
ValidateFrom(catalog, items, i, validated_items, strict) ==
    IF i > Len(items)
    THEN [ok |-> TRUE, status_code |-> 200, detail |-> "", items |-> validated_items]
    ELSE LET item == items[i] IN
         IF item.product_id \notin DOMAIN catalog
         THEN ValidationError("Product not found")
         ELSE LET product == catalog[item.product_id] IN
              IF PriceMismatch(get_current_price(product), item.product_price, strict)
              THEN ValidationError("Price mismatch")
              ELSE IF LowerStrip(product.name) # LowerStrip(item.product_name)
              THEN ValidationError("Product name mismatch")
              ELSE IF item.quantity <= 0 \/ item.quantity > MaxQuantity
              THEN ValidationError("Invalid quantity")
              ELSE ValidateFrom(catalog, items, i + 1,
                       Append(validated_items,
                              [product |-> item.product_id,
                               quantity |-> item.quantity,
                               selected_size |-> item.selected_size,
                               unit_price |-> get_current_price(product),
                               line_total |-> get_current_price(product) * item.quantity]),
                       strict)

\* a validation that looks at the first item only
_validate_order_items_FirstOnly(catalog, items, strict) ==
    ValidateFrom(catalog, SubSeq(items, 1, 1), 1, << >>, strict)

_validate_order_items(catalog, items, strict) ==
    ValidateFrom(catalog, items, 1, << >>, strict)

----------------------------------------------------------------------------
(* DiscountCode.is_valid / calculate_discount / increment_usage *)

\* is_valid without the end-date check
is_valid_NoExpiry(dc, t, order_amount) ==
    IF ~dc.is_active THEN [valid |-> FALSE, error |-> "Discount code is not active"]
    ELSE IF dc.start_date # NoDate /\ t < dc.start_date
    THEN [valid |-> FALSE, error |-> "Discount code is not yet active"]
    ELSE IF dc.max_uses # 0 /\ dc.current_uses >= dc.max_uses
    THEN [valid |-> FALSE, error |-> "Discount code has reached its usage limit"]
    ELSE IF order_amount < dc.min_order_amount
    THEN [valid |-> FALSE, error |-> "Minimum order amount required"]
    ELSE [valid |-> TRUE, error |-> ""]

is_valid(dc, t, order_amount) ==
    IF ~dc.is_active THEN [valid |-> FALSE, error |-> "Discount code is not active"]
    ELSE IF dc.start_date # NoDate /\ t < dc.start_date
    THEN [valid |-> FALSE, error |-> "Discount code is not yet active"]
    ELSE IF dc.end_date # NoDate /\ t > dc.end_date
    THEN [valid |-> FALSE, error |-> "Discount code has expired"]
    ELSE IF dc.max_uses # 0 /\ dc.current_uses >= dc.max_uses
    THEN [valid |-> FALSE, error |-> "Discount code has reached its usage limit"]
    ELSE IF order_amount < dc.min_order_amount
    THEN [valid |-> FALSE, error |-> "Minimum order amount required"]
    ELSE [valid |-> TRUE, error |-> ""]

\* round(x, 2) of the float x = n / 10000 euro cents: to the nearest cent; when
\* x lies halfway between two cents its binary representation decides (tieUp)
Round2(n, tieUp) ==
    LET q == n \div 10000
        r == n % 10000
    IN  IF 2 * r > 10000 THEN q + 1
        ELSE IF 2 * r < 10000 THEN q
        ELSE IF tieUp THEN q + 1 ELSE q

\* calculate_discount without min(discount_amount, order_amount)
calculate_discount_Uncapped(dc, t, order_amount, tieUp) ==
    LET raw == IF dc.discount_type = "percentage"
               THEN order_amount * dc.discount_value
               ELSE dc.discount_value * 10000
    IN  Round2(IF dc.max_discount_amount # 0
               THEN Min(raw, dc.max_discount_amount * 10000) ELSE raw, tieUp)

calculate_discount(dc, t, order_amount, tieUp) ==
    IF ~is_valid(dc, t, order_amount).valid THEN 0
    ELSE LET raw == IF dc.discount_type = "percentage"
                    THEN order_amount * dc.discount_value
                    ELSE dc.discount_value * 10000
             capped == IF dc.max_discount_amount # 0
                       THEN Min(raw, dc.max_discount_amount * 10000)
                       ELSE raw
         IN  Round2(Min(capped, order_amount * 10000), tieUp)

increment_usage(dc) == [dc EXCEPT !.current_uses = @ + 1]

\* DiscountCode.code.ilike(pattern): case-insensitive LIKE, "%" matches anything
ILike(code, pattern) == pattern = "%" \/ Fold(code) = Fold(pattern)

\* DiscountCodeService.apply_discount_code for the row the query returned
\* (row = NoCode: the query found nothing)
apply_discount_code(codes, row, t, order_amount, tieUp) ==
    IF row = NoCode
    THEN [amount |-> 0, error |-> "Invalid discount code", codes |-> codes]
    ELSE LET v == is_valid(codes[row], t, order_amount) IN
         IF ~v.valid
         THEN [amount |-> 0, error |-> v.error, codes |-> codes]
         ELSE [amount |-> calculate_discount(codes[row], t, order_amount, tieUp),
               error |-> "",
               codes |-> [codes EXCEPT ![row] = increment_usage(@)]]

\* the rows .filter(code.ilike(...)).first() may return
FirstMatches(codes, pattern) ==
    LET m == {c \in DOMAIN codes : ILike(codes[c].code, pattern)}
    IN  IF m = {} THEN {NoCode} ELSE m

----------------------------------------------------------------------------
(* SecureOrderService._calculate_pricing *)

\* Decimal(str(x)).quantize(Decimal("0.01"), rounding=ROUND_HALF_UP) of a
\* value given in cents
quantize(cents) == (2 * (cents * 100) + 100) \div 200

\* the shipping rule on the number of lines instead of the quantities
ShippingCost_ByLines(validated_items) ==
    IF Len(validated_items) >= free_shipping_threshold
    THEN 0 ELSE standard_shipping_cost

\* the server-side shipping rule
ShippingCost(validated_items) ==
    LET total_quantity == SumQuantities(validated_items, 1)
    IN  IF total_quantity >= free_shipping_threshold
        THEN 0 ELSE standard_shipping_cost

_calculate_pricing(validated_items, promo_code, codes, row, t, tieUp) ==
    LET subtotal == SumLineTotals(validated_items, 1)
        shipping_cost == ShippingCost(validated_items)
        applied == IF promo_code # NoPromo
                   THEN apply_discount_code(codes, row, t, subtotal, tieUp)
                   ELSE [amount |-> 0, error |-> "", codes |-> codes]
        discount_amount == IF applied.error = "" THEN quantize(applied.amount) ELSE 0
        tax_amount == 0
    IN  [subtotal |-> subtotal,
         discount_amount |-> discount_amount,
         tax_amount |-> tax_amount,
         shipping_cost |-> shipping_cost,
         total |-> subtotal - discount_amount + tax_amount + shipping_cost,
         codes |-> applied.codes]

----------------------------------------------------------------------------
(* SecureOrderService._create_order_record *)

\* float(Decimal): the double nearest to the amount, named by its cents
\* what may go wrong while a request is answered: nothing, or an exception at
\* one place of the handler. For a callback: inside the reduce_stock call for
\* one item, at the commit that ends process_callback, or in the notification.
\* For an order: at the flush of the order row, at the insert of one item row,
\* at the commit of the order, in the payment form, at the payment's commit
NoFault == [at |-> "none", item |-> 0]
FaultAt(at, item) == [at |-> at, item |-> item]

ToFloat(cents) == cents

\* OrderItem whose total_price is the unit price, whatever the quantity
OrderItemRow_UnitTotal(item) ==
    [product_id |-> item.product,
     size |-> IF item.selected_size # NoSize THEN item.selected_size ELSE "",
     quantity |-> item.quantity,
     unit_price |-> ToFloat(item.unit_price),
     total_price |-> ToFloat(item.unit_price)]

OrderItemRow(item) ==
    [product_id |-> item.product,
     size |-> IF item.selected_size # NoSize THEN item.selected_size ELSE "",
     quantity |-> item.quantity,
     unit_price |-> ToFloat(item.unit_price),
     total_price |-> ToFloat(item.line_total)]

_create_order_record(order_id, validated_items, pricing) ==
    [id |-> order_id,
     status |-> "pending",
     payment_status |-> "pending",
     subtotal |-> ToFloat(pricing.subtotal),
     tax_amount |-> ToFloat(pricing.tax_amount),
     shipping_amount |-> ToFloat(pricing.shipping_cost),
     discount_amount |-> ToFloat(pricing.discount_amount),
     total_amount |-> ToFloat(pricing.total),
     payment_reference |-> NoReference,
     items |-> [i \in 1..Len(validated_items) |-> OrderItemRow(validated_items[i])]]

\* a failing commit of the order taken for a success
InsertFails_IgnoreCommit(fault) == fault.at \in {"insert_order", "insert_item"}

InsertFails(fault) == fault.at \in {"insert_order", "insert_item", "order_commit"}

\* the order rows committed when the header is committed at its flush
PersistOrder_HeaderFirst(order_rows, order, fault) ==
    IF fault.at = "insert_order" THEN [ok |-> FALSE, orders |-> order_rows]
    ELSE IF fault.at = "insert_item"
    THEN [ok |-> FALSE,
          orders |-> Append(order_rows,
                            [order EXCEPT !.items = SubSeq(@, 1, fault.item - 1)])]
    ELSE IF fault.at = "order_commit"
    THEN [ok |-> FALSE, orders |-> Append(order_rows, [order EXCEPT !.items = << >>])]
    ELSE [ok |-> TRUE, orders |-> Append(order_rows, order)]

\* db.add(order), db.flush(), db.add(order_item) for each item, db.commit():
\* the order rows committed afterwards. An exception leaves the session
\* without a commit, and what it held is gone when the session closes
PersistOrder(order_rows, order, fault) ==
    IF InsertFails(fault)
    THEN [ok |-> FALSE, orders |-> order_rows]
    ELSE [ok |-> TRUE, orders |-> Append(order_rows, order)]

----------------------------------------------------------------------------
(* What the provider posts back: Ds_MerchantParameters and Ds_Signature *)

SecretKey == "REDSYS_SECRET_KEY"
AttackerKey == "guess"

\* the decoded content of Ds_MerchantParameters; kind "json" is a base64 JSON
\* object, "garbage" does not decode, "empty" is the empty string
MerchantParameters(kind, ds_order, ds_response, ds_transaction_id) ==
    [kind |-> kind, Ds_Order |-> ds_order, Ds_Response |-> ds_response,
     Ds_TransactionId |-> ds_transaction_id]

NoDsOrder == [timestamp |-> -1, payment_hash |-> -1]
UnknownDsOrder == [timestamp |-> MaxTime + 1, payment_hash |-> 0]
EmptyParameters ==
    MerchantParameters("empty", NoDsOrder, NoResponse, NoReference)
GarbageParameters ==
    MerchantParameters("garbage", NoDsOrder, NoResponse, NoReference)

\* the HMAC of the parameters under a key
Sign(key, parameters) == [key |-> key, parameters |-> parameters]
NoSignature == [key |-> "", parameters |-> EmptyParameters]

----------------------------------------------------------------------------
(* RedsysPaymentService.create_payment *)

\* the last two characters of str(hash(payment_id)) that may come up; they
\* are only ever compared, so the first payment takes 0 and a later one takes
\* a suffix already seen or the next one
HashSuffixes(pays) == {suffix \in {0, 1} : suffix <= Len(pays)}

\* strftime("%y%m%d%H%M") of the clock followed by str(hash(payment_id))[-2:]
_generate_ds_order(t, suffix) == [timestamp |-> t, payment_hash |-> suffix]

NewPayment(payment_id, order_id, amount) ==
    [id |-> payment_id,
     order_id |-> order_id,
     status |-> "pending",
     amount |-> amount,
     provider_transaction_id |-> NoReference]

NewTransaction(payment_id, ds_order) ==
    [payment_id |-> payment_id,
     ds_order |-> ds_order,
     response_ds_response |-> NoResponse,
     response_ds_transaction_id |-> NoReference,
     signature_verified |-> FALSE]

\* PaymentCreateRequest.validate_amount (amounts here have two decimals)
validate_amount(amount) == amount > 0

PaymentFails(fault, real) ==
    \/ fault.at = "form" /\ real
    \/ fault.at = "payment_commit"

\* create_payment that commits the payment row at its flush
create_payment_CommitAtFlush(order_rows, pays, txs, order_id, amount, t, suffix, real, fault) ==
    IF ~validate_amount(amount) \/ order_id \notin 1..Len(order_rows)
    THEN [ok |-> FALSE, payments |-> pays, redsys_transactions |-> txs,
          payment_url |-> ""]
    ELSE LET payment_id == Len(pays) + 1 IN
         IF PaymentFails(fault, real)
         THEN [ok |-> FALSE,
               payments |-> Append(pays, NewPayment(payment_id, order_id, amount)),
               redsys_transactions |-> txs, payment_url |-> ""]
         ELSE
         [ok |-> TRUE,
          payments |-> Append(pays, NewPayment(payment_id, order_id, amount)),
          redsys_transactions |->
              Append(txs, NewTransaction(payment_id, _generate_ds_order(t, suffix))),
          payment_url |-> IF real THEN "redsys_url" ELSE "mock_url"]

\* the tables after create_payment, and the payment_url it returns. The rows
\* are added and flushed, the form is made, then all is committed; an
\* exception on the way is answered with db.rollback() and raised again
create_payment(order_rows, pays, txs, order_id, amount, t, suffix, real, fault) ==
    IF ~validate_amount(amount) \/ order_id \notin 1..Len(order_rows)
    THEN [ok |-> FALSE, payments |-> pays, redsys_transactions |-> txs,
          payment_url |-> ""]
    ELSE LET payment_id == Len(pays) + 1 IN
         IF PaymentFails(fault, real)
         THEN [ok |-> FALSE, payments |-> pays, redsys_transactions |-> txs,
               payment_url |-> ""]
         ELSE
         [ok |-> TRUE,
          payments |-> Append(pays, NewPayment(payment_id, order_id, amount)),
          redsys_transactions |->
              Append(txs, NewTransaction(payment_id, _generate_ds_order(t, suffix))),
          payment_url |-> IF real THEN "redsys_url" ELSE "mock_url"]

----------------------------------------------------------------------------
(* Requests the clients send *)

NoReq == [op |-> "none"]
NoResp == [op |-> "none"]

ItemRequest(p, n, price, q, size) ==
    [product_id |-> p, product_name |-> n, product_price |-> price,
     quantity |-> q, selected_size |-> size]

\* items that pass validation against the seeded catalog ...
GoodItems ==
    {ItemRequest("p1", "Glove", 105, 2, "8"),
     ItemRequest("p2", "  PRO GLOVE ", 205, 1, NoSize)}

\* ... and items that are off by one cent, off by more, priced at the base
\* price of a product on sale, unknown, misnamed or outside the quantity range
BadItems ==
    {ItemRequest("p2", "Pro Glove", 204, 1, "8"),
     ItemRequest("p1", "Glove", 103, 1, "8"),
     ItemRequest("p2", "Pro Glove", 250, 1, "8"),
     ItemRequest("ghost", "Glove", 105, 1, "8"),
     ItemRequest("p1", "Other", 105, 1, "8"),
     ItemRequest("p1", "Glove", 105, 100, "8")}

SeqsUpTo(S, n) == UNION {[1..k -> S] : k \in 1..n}

PromoInputs ==
    {NoPromo, "SAVE10", " save10 ", "ONCE", "OLD", "SOON", "OFF", "USED", "BIG", "NOPE", "%"}

\* the lists a promo code is tried on: one item with shipping, two of one
\* product, and two lines above the cap of the percentage code
PromoItems ==
    {<<ItemRequest("p2", "  PRO GLOVE ", 205, 1, NoSize)>>,
     <<ItemRequest("p1", "Glove", 105, 2, "8")>>,
     <<ItemRequest("p1", "Glove", 105, 2, "8"),
       ItemRequest("p2", "  PRO GLOVE ", 205, 1, NoSize)>>}

\* a list of good items with one bad item put in at any place
WithBadItem(n) ==
    UNION {{[i \in 1..(Len(s) + 1) |->
                IF i < k THEN s[i] ELSE IF i = k THEN b ELSE s[i - 1]] :
              b \in BadItems, k \in 1..(Len(s) + 1)} :
           s \in {<< >>} \cup SeqsUpTo(GoodItems, n - 1)}

\* every list of good items without a code, the promo lists with every code,
\* and the lists with a bad item without a code and with a valid one
OrderRequests ==
    {[op |-> "create_order", items |-> s, promo_code |-> NoPromo, fault |-> NoFault] :
        s \in SeqsUpTo(GoodItems, MaxItems)}
    \cup
    {[op |-> "create_order", items |-> s, promo_code |-> c, fault |-> NoFault] :
        s \in PromoItems, c \in PromoInputs}
    \cup
    {[op |-> "create_order", items |-> s, promo_code |-> c, fault |-> NoFault] :
        s \in WithBadItem(MaxItems), c \in {NoPromo, "SAVE10"}}

\* the places where the creation of an order with these items may fail
OrderFaults(items) ==
    {NoFault, FaultAt("insert_order", 0), FaultAt("order_commit", 0),
     FaultAt("form", 0), FaultAt("payment_commit", 0)}
    \cup {FaultAt("insert_item", i) : i \in 1..Len(items)}

\* the checkout requests of the settlement runs: one list of items with every
\* fault, and the same list with its second item at the price before the sale
PayOrderRequests ==
    UNION {{[op |-> "create_order", items |-> s, promo_code |-> NoPromo, fault |-> f] :
               f \in OrderFaults(s)} :
        s \in {<<ItemRequest("p1", "Glove", 105, 1, "8"),
                 ItemRequest("p2", "Pro Glove", 205, 1, "8")>>}}
    \cup
    {[op |-> "create_order", promo_code |-> NoPromo, fault |-> NoFault,
      items |-> <<ItemRequest("p1", "Glove", 105, 1, "8"),
                  ItemRequest("p2", "Pro Glove", 250, 1, "8")>>]}

----------------------------------------------------------------------------
(* SecureOrderService.validate_and_create_order, behind POST /orders/create *)

OrderError(status_code, detail) ==
    [op |-> "create_order", status_code |-> status_code, detail |-> detail,
     order_id |-> 0, status |-> "", total_amount |-> 0, subtotal |-> 0,
     tax_amount |-> 0, shipping_amount |-> 0, discount_amount |-> 0,
     payment_url |-> ""]

OrderResponse(order, pricing, payment_url) ==
    [op |-> "create_order", status_code |-> 200, detail |-> "",
     order_id |-> order.id, status |-> order.status,
     total_amount |-> pricing.total, subtotal |-> pricing.subtotal,
     tax_amount |-> pricing.tax_amount, shipping_amount |-> pricing.shipping_cost,
     discount_amount |-> pricing.discount_amount,
     payment_url |-> payment_url]

\* the floats whose rounding the code depends on: the price comparison at a
\* difference of one cent, round(x, 2) at half a cent
StrictChoices(r) ==
    IF \E i \in 1..Len(r.items) :
           /\ r.items[i].product_id \in DOMAIN products
           /\ Abs(get_current_price(products[r.items[i].product_id])
                  - r.items[i].product_price) = PriceTolerance
    THEN BOOLEAN ELSE {FALSE}

TieChoices(r) == IF r.promo_code # NoPromo THEN BOOLEAN ELSE {FALSE}

validate_and_create_order(r, strict) ==
    /\ req' = r
    /\ LET v == _validate_order_items(products, r.items, strict) IN
       IF ~v.ok
       THEN /\ resp' = OrderError(v.status_code, v.detail)
            /\ UNCHANGED <<discount_codes, orders, payments, redsys_transactions>>
       ELSE \E row \in FirstMatches(discount_codes, Strip(r.promo_code)),
               tieUp \in TieChoices(r), suffix \in HashSuffixes(payments) :
            LET pricing == _calculate_pricing(v.items, r.promo_code, discount_codes,
                                              row, now, tieUp)
                order == _create_order_record(Len(orders) + 1, v.items, pricing)
                saved == PersistOrder(orders, order, r.fault)
                paid == create_payment(saved.orders, payments,
                                       redsys_transactions, order.id, pricing.total,
                                       now, suffix, client, r.fault)
            IN  /\ discount_codes' = pricing.codes
                /\ orders' = saved.orders
                /\ IF saved.ok
                   THEN /\ payments' = paid.payments
                        /\ redsys_transactions' = paid.redsys_transactions
                        /\ resp' = OrderResponse(order, pricing, paid.payment_url)
                   ELSE /\ resp' = OrderError(500, "Order processing failed")
                        /\ UNCHANGED <<payments, redsys_transactions>>
    /\ UNCHANGED <<client, now, products, stock, emails, workers>>

\* a client posts one of `requests` while the server is idle
CreateOrder(requests) ==
    /\ req = NoReq
    /\ Len(orders) < MaxOrders
    /\ Len(payments) < MaxPayments
    /\ \E r \in requests :
          /\ r.fault.at = "form" => client
          /\ \E strict \in StrictChoices(r) : validate_and_create_order(r, strict)

\* the response has been delivered
Return ==
    /\ req # NoReq
    /\ req' = NoReq
    /\ resp' = NoResp
    /\ UNCHANGED <<client, now, products, stock, discount_codes, orders, payments,
                   redsys_transactions, emails, workers>>

\* the clock advances
Tick ==
    /\ req = NoReq
    /\ now < MaxTime
    /\ now' = now + 1
    /\ UNCHANGED <<client, products, stock, discount_codes, orders, payments,
                   redsys_transactions, emails, req, resp, workers>>

----------------------------------------------------------------------------
(* The seeded database and the service after construction *)

SeedProducts ==
    [p \in Products |->
        IF p = "p1"
        THEN [name |-> "Glove", price |-> 105, discount_price |-> NoPrice]
        ELSE [name |-> "Pro Glove", price |-> 250, discount_price |-> 205]]

StockKeys == Products \X Sizes

StockRow(q) == [stock_quantity |-> q, is_available |-> q > 0]

SeedStock ==
    [k \in StockKeys |-> IF k[1] = "p1" THEN StockRow(MaxStock) ELSE StockRow(1)]

DiscountRow(code, type, value, min_order, cap, active, start, end, max_uses, uses) ==
    [code |-> code, discount_type |-> type, discount_value |-> value,
     min_order_amount |-> min_order, max_discount_amount |-> cap,
     is_active |-> active, start_date |-> start, end_date |-> end,
     max_uses |-> max_uses, current_uses |-> uses]

SeedCodes ==
    [c \in {"SAVE10", "ONCE", "OLD", "SOON", "OFF", "USED", "BIG"} |->
        CASE c = "SAVE10" ->
                DiscountRow(c, "percentage", 1000, 100, 30, TRUE, NoDate, NoDate, 0, 0)
          [] c = "ONCE" ->
                DiscountRow(c, "fixed", 500, 0, 0, TRUE, NoDate, NoDate, 1, 0)
          [] c = "OLD" ->
                DiscountRow(c, "percentage", 5000, 0, 0, TRUE, NoDate, 0, 0, 0)
          [] c = "SOON" ->
                DiscountRow(c, "percentage", 5000, 0, 0, TRUE, MaxTime + 1, NoDate, 0, 0)
          [] c = "USED" ->
                DiscountRow(c, "fixed", 100, 0, 0, TRUE, NoDate, NoDate, 1, 1)
          [] c = "OFF" ->
                DiscountRow(c, "fixed", 100, 0, 0, FALSE, NoDate, NoDate, 0, 0)
          [] OTHER ->
                DiscountRow(c, "fixed", 100, 10000, 0, TRUE, NoDate, NoDate, 0, 0)]

Init ==
    /\ client \in BOOLEAN
    /\ now = 0
    /\ products = SeedProducts
    /\ stock = SeedStock
    /\ discount_codes = SeedCodes
    /\ orders = << >>
    /\ payments = << >>
    /\ redsys_transactions = << >>
    /\ emails = << >>
    /\ req = NoReq
    /\ resp = NoResp
    /\ workers = << >>

----------------------------------------------------------------------------
(* Order creation alone, over every request *)

\* the price changes an administrator may make: the sale of p2 ends
ProductUpdates ==
    {[product_id |-> "p2", price |-> 250, discount_price |-> NoPrice]}

\* ProductService.update_product with price and discount_price set
update_product(catalog, product_id, product_data) ==
    IF product_id \notin DOMAIN catalog THEN catalog
    ELSE [catalog EXCEPT ![product_id] =
             [@ EXCEPT !.price = product_data.price,
                       !.discount_price = product_data.discount_price]]

UpdateProduct ==
    /\ req = NoReq
    /\ \E u \in ProductUpdates :
          /\ products' = update_product(products, u.product_id, u)
          /\ products' # products
    /\ UNCHANGED <<client, now, stock, discount_codes, orders, payments,
                   redsys_transactions, emails, req, resp, workers>>

NextOrder ==
    \/ CreateOrder(OrderRequests)
    \/ Return
    \/ Tick
    \/ UpdateProduct

SpecOrder == Init /\ [][NextOrder]_vars

----------------------------------------------------------------------------
(* ProductService.reduce_stock, run to completion *)

\* reduce_stock refusing a request for all that is left
reduce_stock_Strict(rows, product_id, size, quantity) ==
    IF <<product_id, size>> \notin DOMAIN rows
    THEN [success |-> FALSE, stock |-> rows]
    ELSE IF rows[<<product_id, size>>].stock_quantity <= quantity
    THEN [success |-> FALSE, stock |-> rows]
    ELSE LET new_quantity == rows[<<product_id, size>>].stock_quantity - quantity IN
         [success |-> TRUE,
          stock |-> [rows EXCEPT ![<<product_id, size>>] =
                        [stock_quantity |-> new_quantity,
                         is_available |-> new_quantity > 0]]]

reduce_stock(rows, product_id, size, quantity) ==
    IF <<product_id, size>> \notin DOMAIN rows
    THEN [success |-> FALSE, stock |-> rows]
    ELSE IF rows[<<product_id, size>>].stock_quantity < quantity
    THEN [success |-> FALSE, stock |-> rows]
    ELSE LET new_quantity == rows[<<product_id, size>>].stock_quantity - quantity IN
         [success |-> TRUE,
          stock |-> [rows EXCEPT ![<<product_id, size>>] =
                        [stock_quantity |-> new_quantity,
                         is_available |-> new_quantity > 0]]]

\* the rows the session has committed, or the rows as the session sees them
Tables(pays, ords, txs, rows) ==
    [payments |-> pays, orders |-> ords, redsys_transactions |-> txs, stock |-> rows]

RECURSIVE ReduceItems(_, _, _, _, _)
\* the loop over order.items of _update_payment_status: reduce_stock commits
\* the session when it succeeds, leaves it alone when it returns False, and
\* rolls it back before it raises; the loop catches what it raises
ReduceItems(session, committed, items, i, fault) ==
    IF i > Len(items) THEN [session |-> session, committed |-> committed]
    ELSE IF fault = FaultAt("reduce_stock", i)
    THEN ReduceItems(committed, committed, items, i + 1, fault)
    ELSE LET reduced == reduce_stock(session.stock, items[i].product_id,
                                     items[i].size, items[i].quantity)
             written == [session EXCEPT !.stock = reduced.stock]
         IN  IF reduced.success
             THEN ReduceItems(written, written, items, i + 1, fault)
             ELSE ReduceItems(session, committed, items, i + 1, fault)

----------------------------------------------------------------------------
(* RedsysPaymentService.process_callback *)

\* RedirectClient.create_response: decodes, recomputes the signature with the
\* merchant's secret and compares
SignatureVerifies(cb) ==
    /\ cb.ds_merchant_parameters.kind = "json"
    /\ cb.ds_signature = Sign(SecretKey, cb.ds_merchant_parameters)

ProviderTxn(name) == [kind |-> name, timestamp |-> 0, payment_hash |-> 0]
MockTxn(ds_order) ==
    [kind |-> "mock_txn", timestamp |-> ds_order.timestamp,
     payment_hash |-> ds_order.payment_hash]

\* RedsysPaymentService._validate_and_decode_response: the fields are filled
\* from the keys in lower case; Ds_TransactionId becomes ds_transactionid,
\* which is no field, and ds_transaction_id stays None
_validate_and_decode_response(cb) ==
    IF ~SignatureVerifies(cb)
    THEN [ok |-> FALSE, ds_order |-> NoDsOrder, ds_response |-> NoResponse,
          ds_transaction_id |-> NoReference]
    ELSE [ok |-> TRUE,
          ds_order |-> cb.ds_merchant_parameters.Ds_Order,
          ds_response |-> cb.ds_merchant_parameters.Ds_Response,
          ds_transaction_id |-> NoReference]

\* RedsysPaymentService._decode_mock_response
_decode_mock_response(cb) ==
    IF cb.ds_merchant_parameters.kind # "json"
    THEN [ok |-> FALSE, ds_order |-> NoDsOrder, ds_response |-> NoResponse,
          ds_transaction_id |-> NoReference]
    ELSE LET decoded_params == cb.ds_merchant_parameters IN
         [ok |-> TRUE,
          ds_order |-> decoded_params.Ds_Order,
          ds_response |-> IF decoded_params.Ds_Response # NoResponse
                          THEN decoded_params.Ds_Response ELSE APPROVED,
          ds_transaction_id |-> IF decoded_params.Ds_TransactionId # NoReference
                                THEN decoded_params.Ds_TransactionId
                                ELSE MockTxn(decoded_params.Ds_Order)]

\* is_approved taking every response code that is present for an approval
is_approved_AnyCode(transaction) ==
    transaction.response_ds_response # NoResponse

\* RedsysTransaction.is_approved
is_approved(transaction) ==
    IF transaction.response_ds_response = NoResponse THEN FALSE
    ELSE transaction.response_ds_response = APPROVED

\* RedsysPaymentService._update_transaction_with_response and the two
\* assignments that follow it in process_callback
_update_transaction_with_response(transaction, response_params, valid) ==
    [transaction EXCEPT
        !.response_ds_response = response_params.ds_response,
        !.response_ds_transaction_id = response_params.ds_transaction_id,
        !.signature_verified = valid]

\* an endpoint that acknowledges whatever happened
CallbackResponse_AlwaysOk(status_code, detail, payment_id, approved) ==
    [op |-> "callback", status_code |-> 200, detail |-> detail,
     payment_id |-> payment_id, approved |-> approved]

CallbackResponse(status_code, detail, payment_id, approved) ==
    [op |-> "callback", status_code |-> status_code, detail |-> detail,
     payment_id |-> payment_id, approved |-> approved]

\* _update_payment_status whose failure path leaves the order's status alone
_update_payment_status_KeepStatus(session, committed, n, signature_valid, fault) ==
    LET transaction == session.redsys_transactions[n]
        payment == session.payments[transaction.payment_id]
        order == session.orders[payment.order_id]
    IN  IF is_approved(transaction)
        THEN LET approved == [session EXCEPT
                     !.payments[payment.id] =
                         [@ EXCEPT !.status = "completed",
                                   !.provider_transaction_id =
                                        transaction.response_ds_transaction_id],
                     !.orders[order.id] =
                         [@ EXCEPT !.payment_status = "captured",
                                   !.status = "confirmed",
                                   !.payment_reference =
                                        transaction.response_ds_transaction_id]]
                 after == ReduceItems(approved, committed, order.items, 1, fault)
             IN  [session |-> after.session,
                  committed |-> after.committed,
                  notified |-> signature_valid
                                 /\ after.session.redsys_transactions[n].signature_verified]
        ELSE [session |-> [session EXCEPT
                     !.payments[payment.id].status = "failed",
                     !.orders[order.id].payment_status = "failed"],
              committed |-> committed,
              notified |-> FALSE]

\* RedsysPaymentService._update_payment_status in a session that holds the
\* updated transaction number n: the session and the committed rows after it,
\* and whether the success notification was handed to EmailService
_update_payment_status(session, committed, n, signature_valid, fault) ==
    LET transaction == session.redsys_transactions[n]
        payment == session.payments[transaction.payment_id]
        order == session.orders[payment.order_id]
    IN  IF is_approved(transaction)
        THEN LET approved == [session EXCEPT
                     !.payments[payment.id] =
                         [@ EXCEPT !.status = "completed",
                                   !.provider_transaction_id =
                                        transaction.response_ds_transaction_id],
                     !.orders[order.id] =
                         [@ EXCEPT !.payment_status = "captured",
                                   !.status = "confirmed",
                                   !.payment_reference =
                                        transaction.response_ds_transaction_id]]
                 after == ReduceItems(approved, committed, order.items, 1, fault)
             IN  [session |-> after.session,
                  committed |-> after.committed,
                  notified |-> signature_valid
                                 /\ after.session.redsys_transactions[n].signature_verified]
        ELSE [session |-> [session EXCEPT
                     !.payments[payment.id].status = "failed",
                     !.orders[order.id] =
                         [@ EXCEPT !.payment_status = "failed", !.status = "cancelled"]],
              committed |-> committed,
              notified |-> FALSE]

\* RedsysPaymentService.process_callback behind POST /payments/redsys-callback
\* (handle_redsys_callback)
handle_redsys_callback(cb) ==
    /\ req' = cb
    /\ IF cb.ds_merchant_parameters.kind = "empty" \/ cb.ds_signature = NoSignature
       THEN /\ resp' = CallbackResponse(400, "Missing required callback parameters", 0, FALSE)
            /\ UNCHANGED <<orders, payments, redsys_transactions, stock, emails>>
       ELSE LET response_params == IF client THEN _validate_and_decode_response(cb)
                                   ELSE _decode_mock_response(cb)
                signature_valid == TRUE
                found == {n \in 1..Len(redsys_transactions) :
                            redsys_transactions[n].ds_order = response_params.ds_order}
            IN  IF ~response_params.ok
                THEN /\ resp' = CallbackResponse(400, "Invalid response", 0, FALSE)
                     /\ UNCHANGED <<orders, payments, redsys_transactions, stock, emails>>
                ELSE IF found = {}
                THEN /\ resp' = CallbackResponse(400, "Transaction not found", 0, FALSE)
                     /\ UNCHANGED <<orders, payments, redsys_transactions, stock, emails>>
                ELSE \E n \in found :
                     LET committed == Tables(payments, orders, redsys_transactions, stock)
                         transaction == _update_transaction_with_response(
                                            redsys_transactions[n], response_params,
                                            signature_valid)
                         session == [committed EXCEPT
                                        !.redsys_transactions[n] = transaction]
                         updated == _update_payment_status(session, committed, n,
                                                           signature_valid, cb.fault)
                         \* db.commit(), or db.rollback() and the error raised
                         final == IF cb.fault = FaultAt("commit", 0)
                                  THEN updated.committed ELSE updated.session
                     IN  /\ payments' = final.payments
                         /\ orders' = final.orders
                         /\ redsys_transactions' = final.redsys_transactions
                         /\ stock' = final.stock
                         /\ emails' = IF updated.notified
                                      THEN Append(emails,
                                                  payments[transaction.payment_id].order_id)
                                      ELSE emails
                         /\ resp' = IF cb.fault = FaultAt("commit", 0)
                                    THEN CallbackResponse(500, "Internal server error",
                                                          0, FALSE)
                                    ELSE CallbackResponse(
                                             200, "ok", transaction.payment_id,
                                             is_approved(final.redsys_transactions[n]))
    /\ UNCHANGED <<client, now, products, discount_codes, workers>>

\* the callbacks that may arrive: for a known or an unknown order reference,
\* approved, declined or without a response code, signed by the provider, by
\* someone else or not at all
DsOrders == {redsys_transactions[n].ds_order : n \in 1..Len(redsys_transactions)}

CallbackParameters ==
    {MerchantParameters("json", d, c, NoReference) :
        d \in DsOrders, c \in {APPROVED, "0101", NoResponse}}
    \cup {MerchantParameters("json", d, APPROVED, ProviderTxn("T1")) : d \in DsOrders}
    \cup {MerchantParameters("json", UnknownDsOrder, APPROVED, NoReference),
          EmptyParameters, GarbageParameters}

ForgedParameters ==
    {MerchantParameters("json", d, c, NoReference) :
        d \in DsOrders, c \in {APPROVED, "0101"}}

\* the provider's approvals of the first payment may meet a fault: at the
\* final commit, in the reduce_stock call of either item of the order, or in
\* the notification
CallbackFaults(mp) ==
    IF /\ mp.kind = "json" /\ mp.Ds_TransactionId = NoReference
       /\ redsys_transactions # << >> /\ mp.Ds_Order = redsys_transactions[1].ds_order
    THEN IF mp.Ds_Response = APPROVED
         THEN {NoFault, FaultAt("commit", 0), FaultAt("email", 0),
               FaultAt("reduce_stock", 1), FaultAt("reduce_stock", 2)}
         ELSE {NoFault}
    ELSE {NoFault}

Callbacks ==
    UNION {{[op |-> "callback", ds_merchant_parameters |-> mp,
             ds_signature |-> "provider", fault |-> f] : f \in CallbackFaults(mp)} :
           mp \in CallbackParameters}
    \cup {[op |-> "callback", ds_merchant_parameters |-> mp, ds_signature |-> sg,
           fault |-> NoFault] : mp \in ForgedParameters, sg \in {"attacker", "none"}}

Signed(cb) ==
    [cb EXCEPT !.ds_signature =
        CASE @ = "provider" -> Sign(SecretKey, cb.ds_merchant_parameters)
          [] @ = "attacker" -> Sign(AttackerKey, cb.ds_merchant_parameters)
          [] OTHER -> NoSignature]

ProcessCallback ==
    /\ req = NoReq
    /\ Len(emails) < MaxEmails
    /\ \E cb \in Callbacks : handle_redsys_callback(Signed(cb))

\* POST /payments/create-redsys-payment for an order, for its total
create_redsys_payment(order_id, suffix) ==
    LET amount == IF order_id \in 1..Len(orders)
                  THEN orders[order_id].total_amount ELSE 1
        paid == create_payment(orders, payments, redsys_transactions, order_id,
                               amount, now, suffix, client, NoFault)
    IN  /\ req' = [op |-> "create_payment", order_id |-> order_id, amount |-> amount]
        /\ payments' = paid.payments
        /\ redsys_transactions' = paid.redsys_transactions
        /\ resp' = [op |-> "create_payment",
                    status_code |-> IF paid.ok THEN 200 ELSE 400,
                    payment_url |-> paid.payment_url]
        /\ UNCHANGED <<client, now, products, stock, discount_codes, orders, emails,
                       workers>>

CreatePayment ==
    /\ req = NoReq
    /\ Len(payments) < MaxPayments
    /\ \E order_id \in 1..(Len(orders) + 1), suffix \in HashSuffixes(payments) :
          create_redsys_payment(order_id, suffix)

----------------------------------------------------------------------------
(* Checkout and settlement, one request at a time *)

Next ==
    \/ CreateOrder(PayOrderRequests)
    \/ CreatePayment
    \/ ProcessCallback
    \/ Return

Spec == Init /\ [][Next]_vars

----------------------------------------------------------------------------
(* The provider's callbacks with every kind of response code: the approved *)
(* one, codes of the RedsysResponseCode table, a code outside it, none      *)

ResponseCodes == {APPROVED, "0101", "0190", "9999", NoResponse}

CodedCallbacks ==
    {[op |-> "callback", ds_signature |-> "provider", fault |-> NoFault,
      ds_merchant_parameters |-> MerchantParameters("json", d, c, NoReference)] :
        d \in DsOrders, c \in ResponseCodes}

ProcessCodedCallback ==
    /\ req = NoReq
    /\ Len(emails) < MaxEmails
    /\ \E cb \in CodedCallbacks : handle_redsys_callback(Signed(cb))

NextCodes ==
    \/ CreateOrder(PayOrderRequests)
    \/ CreatePayment
    \/ ProcessCodedCallback
    \/ Return

SpecCodes == Init /\ [][NextCodes]_vars

----------------------------------------------------------------------------
(* Concurrent calls of ProductService.reduce_stock, each in its own session: *)
(* the query, then the check on the row it read and the committed write      *)

StockRequests ==
    {[product_id |-> k[1], size |-> k[2], quantity |-> q] :
        k \in StockKeys \cup {<<"p1", "">>}, q \in 1..2}

\* a call starts
CallReduceStock ==
    /\ Len(workers) < MaxWorkers
    /\ \E c \in StockRequests :
          workers' = Append(workers, [pc |-> "query", call |-> c,
                                      stock_quantity |-> 0, result |-> FALSE])
    /\ UNCHANGED <<client, now, products, stock, discount_codes, orders, payments,
                   redsys_transactions, emails, req, resp>>

\* db.query(ProductSize)...first() and the two early returns
QueryProductSize(w) ==
    /\ workers[w].pc = "query"
    /\ LET key == <<workers[w].call.product_id, workers[w].call.size>> IN
       IF key \notin DOMAIN stock
       THEN workers' = [workers EXCEPT ![w].pc = "returned", ![w].result = FALSE]
       ELSE IF stock[key].stock_quantity < workers[w].call.quantity
       THEN workers' = [workers EXCEPT ![w].pc = "returned", ![w].result = FALSE,
                                       ![w].stock_quantity = stock[key].stock_quantity]
       ELSE workers' = [workers EXCEPT ![w].pc = "write",
                                       ![w].stock_quantity = stock[key].stock_quantity]
    /\ UNCHANGED <<client, now, products, stock, discount_codes, orders, payments,
                   redsys_transactions, emails, req, resp>>

\* the two setattr and db.commit()
CommitProductSize(w) ==
    /\ workers[w].pc = "write"
    /\ LET key == <<workers[w].call.product_id, workers[w].call.size>>
           new_quantity == workers[w].stock_quantity - workers[w].call.quantity
       IN  stock' = [stock EXCEPT ![key] = [stock_quantity |-> new_quantity,
                                            is_available |-> new_quantity > 0]]
    /\ workers' = [workers EXCEPT ![w].pc = "returned", ![w].result = TRUE]
    /\ UNCHANGED <<client, now, products, discount_codes, orders, payments,
                   redsys_transactions, emails, req, resp>>

NextStock ==
    \/ CallReduceStock
    \/ \E w \in 1..Len(workers) : QueryProductSize(w)
    \/ \E w \in 1..Len(workers) : CommitProductSize(w)

SpecStock == Init /\ [][NextStock]_vars

----------------------------------------------------------------------------
(* Concurrent calls of DiscountCodeService.apply_discount_code, each in its *)
(* own session: the query and the validity check on the row it read, then  *)
(* increment_usage on that row and the commit                              *)

DiscountRequests ==
    {[code |-> c, order_amount |-> 1000] : c \in {"ONCE", " save10 ", "USED", "NOPE"}}

\* a call starts
CallApplyDiscount ==
    /\ Len(workers) < MaxWorkers
    /\ \E c \in DiscountRequests :
          workers' = Append(workers, [pc |-> "query", call |-> c, key |-> NoCode,
                                      current_uses |-> 0, result |-> FALSE])
    /\ UNCHANGED <<client, now, products, stock, discount_codes, orders, payments,
                   redsys_transactions, emails, req, resp>>

\* db.query(DiscountCode)...first(), and the returns for no row and for a row
\* that is not valid
QueryDiscountCode(w) ==
    /\ workers[w].pc = "query"
    /\ \E row \in FirstMatches(discount_codes, Strip(workers[w].call.code)) :
          IF row = NoCode
          THEN workers' = [workers EXCEPT ![w].pc = "returned"]
          ELSE IF ~is_valid(discount_codes[row], now, workers[w].call.order_amount).valid
          THEN workers' = [workers EXCEPT ![w].pc = "returned", ![w].key = row,
                              ![w].current_uses = discount_codes[row].current_uses]
          ELSE workers' = [workers EXCEPT ![w].pc = "write", ![w].key = row,
                              ![w].current_uses = discount_codes[row].current_uses]
    /\ UNCHANGED <<client, now, products, stock, discount_codes, orders, payments,
                   redsys_transactions, emails, req, resp>>

\* increment_usage() on the row as it was read, and db.commit()
CommitDiscountCode(w) ==
    /\ workers[w].pc = "write"
    /\ LET key == workers[w].key
           read == [discount_codes[key] EXCEPT !.current_uses = workers[w].current_uses]
       IN  discount_codes' =
               [discount_codes EXCEPT ![key].current_uses = increment_usage(read).current_uses]
    /\ workers' = [workers EXCEPT ![w].pc = "returned", ![w].result = TRUE]
    /\ UNCHANGED <<client, now, products, stock, orders, payments,
                   redsys_transactions, emails, req, resp>>

NextDiscount ==
    \/ CallApplyDiscount
    \/ \E w \in 1..Len(workers) : QueryDiscountCode(w)
    \/ \E w \in 1..Len(workers) : CommitDiscountCode(w)

SpecDiscount == Init /\ [][NextDiscount]_vars

----------------------------------------------------------------------------
(* ProductService.update_stock and ProductService.reduce_stock called one *)
(* after the other on the seeded sizes                                     *)

\* update_stock that leaves the availability flag as it was
update_stock_KeepFlag(rows, product_id, size, quantity) ==
    IF <<product_id, size>> \notin DOMAIN rows
    THEN [success |-> FALSE, stock |-> rows]
    ELSE [success |-> TRUE,
          stock |-> [rows EXCEPT ![<<product_id, size>>].stock_quantity = quantity]]

update_stock(rows, product_id, size, quantity) ==
    IF <<product_id, size>> \notin DOMAIN rows
    THEN [success |-> FALSE, stock |-> rows]
    ELSE [success |-> TRUE,
          stock |-> [rows EXCEPT ![<<product_id, size>>] =
                        [stock_quantity |-> quantity, is_available |-> quantity > 0]]]

\* PATCH /products/{product_id}/stock, quantity: int = Query(..., ge=0)
UpdateStockRequests ==
    {[op |-> "update_stock", product_id |-> k[1], size |-> k[2], quantity |-> q] :
        k \in StockKeys \cup {<<"p1", "">>}, q \in 0..MaxStock}

UpdateStock ==
    /\ req = NoReq
    /\ \E r \in UpdateStockRequests :
          LET done == update_stock(stock, r.product_id, r.size, r.quantity) IN
            /\ req' = r
            /\ stock' = done.stock
            /\ resp' = [op |-> "update_stock", success |-> done.success]
    /\ UNCHANGED <<client, now, products, discount_codes, orders, payments,
                   redsys_transactions, emails, workers>>

\* one reduce_stock call in a session of its own, from the query to the commit
ReduceStock ==
    /\ req = NoReq
    /\ \E c \in StockRequests :
          LET done == reduce_stock(stock, c.product_id, c.size, c.quantity) IN
            /\ req' = [op |-> "reduce_stock", product_id |-> c.product_id,
                       size |-> c.size, quantity |-> c.quantity]
            /\ stock' = done.stock
            /\ resp' = [op |-> "reduce_stock", success |-> done.success]
    /\ UNCHANGED <<client, now, products, discount_codes, orders, payments,
                   redsys_transactions, emails, workers>>

NextInventory ==
    \/ UpdateStock
    \/ ReduceStock
    \/ Return

SpecInventory == Init /\ [][NextInventory]_vars

----------------------------------------------------------------------------
(* Properties of order creation *)

\* the price the catalog charges: the sale price when there is one
AuthoritativePrice(p) ==
    IF products[p].discount_price = NoPrice
    THEN products[p].price ELSE products[p].discount_price

HasPriceDeviation(r) ==
    \E i \in 1..Len(r.items) :
        /\ r.items[i].product_id \in Products
        /\ \/ r.items[i].product_price - AuthoritativePrice(r.items[i].product_id) > 1
           \/ AuthoritativePrice(r.items[i].product_id) - r.items[i].product_price > 1

\* C4: a request with an item priced more than one cent away from the
\* authoritative price is answered with a client error, and the orders,
\* payments and provider transactions are what they were before it
C4_PriceIntegrity ==
    [][(req'.op = "create_order" /\ req = NoReq /\ HasPriceDeviation(req'))
        => /\ resp'.status_code >= 400 /\ resp'.status_code < 500
           /\ orders' = orders
           /\ payments' = payments
           /\ redsys_transactions' = redsys_transactions]_vars

\* a two-item request whose second item alone is mispriced was refused
C4_Witness ==
    /\ req.op = "create_order"
    /\ Len(req.items) = 2
    /\ ~HasPriceDeviation([req EXCEPT !.items = <<req.items[1]>>])
    /\ req.items[1].product_id \in Products
    /\ HasPriceDeviation(req)
    /\ resp.status_code = 400
    /\ resp.detail = "Price mismatch"
    /\ orders = << >>

AmountsConsistent(subtotal, discount, tax, shipping, total) ==
    /\ total = subtotal - discount + tax + shipping
    /\ 0 <= discount /\ discount <= subtotal
    /\ shipping \in {0, standard_shipping_cost}
    /\ tax = 0
    /\ total >= 0

RECURSIVE RequestSubtotal(_, _)
RequestSubtotal(items, i) ==
    IF i > Len(items) THEN 0
    ELSE AuthoritativePrice(items[i].product_id) * items[i].quantity
         + RequestSubtotal(items, i + 1)

RECURSIVE RequestQuantity(_, _)
RequestQuantity(items, i) ==
    IF i > Len(items) THEN 0 ELSE items[i].quantity + RequestQuantity(items, i + 1)

\* the row is inactive, not yet valid, expired, exhausted or asks for a
\* larger order
RowRejects(dc, amount) ==
    \/ ~dc.is_active
    \/ dc.start_date # NoDate /\ now < dc.start_date
    \/ dc.end_date # NoDate /\ now > dc.end_date
    \/ dc.max_uses > 0 /\ dc.current_uses >= dc.max_uses
    \/ amount < dc.min_order_amount

\* the promo code names no row (unknown), or only rows that reject the order
PromoRejected(r) ==
    /\ r.promo_code # NoPromo
    /\ \A c \in DOMAIN discount_codes :
          ILike(discount_codes[c].code, Strip(r.promo_code))
             => RowRejects(discount_codes[c], RequestSubtotal(r.items, 1))

\* every item names a product with its name and price, in a quantity of 1..99
ItemsInOrder(r) ==
    \A i \in 1..Len(r.items) :
        /\ r.items[i].product_id \in Products
        /\ r.items[i].product_price = AuthoritativePrice(r.items[i].product_id)
        /\ LowerStrip(r.items[i].product_name)
              = LowerStrip(products[r.items[i].product_id].name)
        /\ r.items[i].quantity \in 1..MaxQuantity

\* C6: a request of valid items whose promo code is unknown, inactive, not yet
\* valid, expired, exhausted or below its minimum order amount creates the
\* order, with discount 0 and total = subtotal + shipping
C6_InvalidPromoNonFatal ==
    [][(req = NoReq /\ req'.op = "create_order" /\ ItemsInOrder(req')
            /\ PromoRejected(req'))
        => /\ resp'.status_code = 200
           /\ resp'.discount_amount = 0
           /\ resp'.total_amount = resp'.subtotal + resp'.shipping_amount
           /\ Len(orders') = Len(orders) + 1
           /\ orders'[Len(orders')].discount_amount = 0
           /\ orders'[Len(orders')].total_amount
                 = RequestSubtotal(req'.items, 1) + orders'[Len(orders')].shipping_amount
           /\ discount_codes' = discount_codes]_vars

\* an order went through with an expired code and no discount
C6_Witness ==
    /\ req.op = "create_order"
    /\ ItemsInOrder(req)
    /\ req.promo_code = "OLD"
    /\ PromoRejected(req)
    /\ resp.status_code = 200
    /\ resp.discount_amount = 0
    /\ Len(orders) = 1

\* C9: the shipping amount of every order is 0 when the quantities of its
\* items add up to 2 or more and the standard fee 3.00 when they add up to 1,
\* in the row and in the response, whatever else the request carried
C9_ShippingThreshold ==
    /\ \A i \in 1..Len(orders) :
          orders[i].shipping_amount =
              IF RequestQuantity(orders[i].items, 1) >= 2 THEN 0 ELSE 300
    /\ (resp.op = "create_order" /\ resp.status_code = 200) =>
          resp.shipping_amount =
              IF RequestQuantity(req.items, 1) >= 2 THEN 0 ELSE 300

\* an order of a single line of quantity 2 ships free
C9_Witness ==
    /\ resp.op = "create_order"
    /\ resp.status_code = 200
    /\ Len(req.items) = 1
    /\ req.items[1].quantity = 2
    /\ resp.shipping_amount = 0
    /\ orders[resp.order_id].shipping_amount = 0

\* the item cannot pass validation: its product is unknown, its price is more
\* than a cent away from the authoritative one, its name is not the product's
\* or its quantity is outside 1..99
ItemInvalid(item) ==
    \/ item.product_id \notin Products
    \/ /\ item.product_id \in Products
       /\ \/ item.product_price - AuthoritativePrice(item.product_id) > 1
          \/ AuthoritativePrice(item.product_id) - item.product_price > 1
          \/ LowerStrip(products[item.product_id].name) # LowerStrip(item.product_name)
    \/ item.quantity < 1
    \/ item.quantity > 99

\* C13: a request with an item that fails validation is answered with a
\* client error and writes nothing: no order, payment or provider transaction
\* is added and no discount code is used, wherever the item stands
C13_AllOrNothingValidation ==
    [][(req = NoReq /\ req'.op = "create_order"
            /\ \E i \in 1..Len(req'.items) : ItemInvalid(req'.items[i]))
        => /\ resp'.status_code >= 400 /\ resp'.status_code < 500
           /\ orders' = orders
           /\ payments' = payments
           /\ redsys_transactions' = redsys_transactions
           /\ discount_codes' = discount_codes
           /\ stock' = stock]_vars

\* a request with a valid code whose first item is valid and whose second is
\* not was refused and the tables are the seeded ones
C13_Witness ==
    /\ req # NoReq /\ req.op = "create_order"
    /\ Len(req.items) = 2
    /\ ~ItemInvalid(req.items[1]) /\ ItemInvalid(req.items[2])
    /\ req.items[2].quantity = 100
    /\ req.promo_code = "SAVE10"
    /\ resp.status_code = 400
    /\ orders = << >> /\ payments = << >> /\ redsys_transactions = << >>
    /\ discount_codes = SeedCodes

\* the amounts and the item rows of an order
Amounts(order) ==
    <<order.subtotal, order.discount_amount, order.shipping_amount,
      order.tax_amount, order.total_amount, order.items>>

\* C17: the items of a new order carry the authoritative price of their
\* product at that moment, with total_price = unit_price * quantity, and no
\* later step, a price change among them, alters the items or the amounts of
\* an order that exists
C17_PriceSnapshot ==
    [][/\ (req = NoReq /\ req'.op = "create_order" /\ resp'.status_code = 200)
           => /\ Len(orders') = Len(orders) + 1
              /\ Len(orders'[Len(orders')].items) = Len(req'.items)
              /\ \A i \in 1..Len(req'.items) :
                    LET row == orders'[Len(orders')].items[i] IN
                      /\ row.product_id = req'.items[i].product_id
                      /\ row.quantity = req'.items[i].quantity
                      /\ row.unit_price = AuthoritativePrice(row.product_id)
                      /\ row.total_price = row.unit_price * row.quantity
       /\ \A o \in 1..Len(orders) : Amounts(orders'[o]) = Amounts(orders[o])]_vars

\* the sale of p2 ended after an order took p2 at the sale price: the order
\* still shows the price it was created with
C17_Witness ==
    /\ Len(orders) = 1 /\ req = NoReq
    /\ products # SeedProducts
    /\ \E i \in 1..Len(orders[1].items) :
          /\ orders[1].items[i].product_id = "p2"
          /\ orders[1].items[i].unit_price = 205
          /\ orders[1].items[i].unit_price # AuthoritativePrice("p2")
          /\ orders[1].total_amount >= 205

\* an order request is taken up in this step
OrderStep == req = NoReq /\ req'.op = "create_order"

\* the order the step has added is pending and has a row for every item asked
NewOrderPending ==
    /\ Len(orders') = Len(orders) + 1
    /\ SubSeq(orders', 1, Len(orders)) = orders
    /\ orders'[Len(orders')].status = "pending"
    /\ orders'[Len(orders')].payment_status = "pending"
    /\ Len(orders'[Len(orders')].items) = Len(req'.items)

\* C18: when the payment request of a new order cannot be made, the order and
\* its items stay stored, pending, the response is the order's without a
\* payment URL, and no payment or provider transaction row is left behind
C18_PaymentFailureKeepsOrder ==
    [][/\ (OrderStep /\ PaymentFails(req'.fault, client))
           => /\ NewOrderPending
              /\ resp'.status_code = 200
              /\ resp'.order_id = Len(orders')
              /\ resp'.payment_url = ""
              /\ payments' = payments
              /\ redsys_transactions' = redsys_transactions
       /\ (OrderStep /\ resp'.status_code = 200 /\ resp'.payment_url = "")
           => /\ payments' = payments
              /\ redsys_transactions' = redsys_transactions]_vars

\* the form of the real client failed for an order that is now stored
C18_Witness ==
    /\ req # NoReq /\ req.op = "create_order" /\ req.fault = FaultAt("form", 0)
    /\ client
    /\ resp.status_code = 200 /\ resp.payment_url = ""
    /\ Len(orders) = 1 /\ orders[1].status = "pending"
    /\ Len(orders[1].items) = 2
    /\ payments = << >> /\ redsys_transactions = << >>

\* C19: an order request either adds the order with all its item rows or,
\* when the insert of a row or the commit fails, adds no row of it at all
C19_AtomicPersistence ==
    [][OrderStep
         => /\ orders' = orders \/ NewOrderPending
            /\ InsertFails(req'.fault)
                 => /\ orders' = orders
                    /\ resp'.status_code = 500
                    /\ payments' = payments
                    /\ redsys_transactions' = redsys_transactions]_vars

\* the insert of the second item row failed and no order is stored
C19_Witness ==
    /\ req # NoReq /\ req.op = "create_order"
    /\ req.fault = FaultAt("insert_item", 2)
    /\ resp.status_code = 500
    /\ orders = << >>

\* the order could not be stored
PersistenceFails(r) == r.fault.at \in {"insert_order", "insert_item", "order_commit"}

\* C26: in one order request the validation of every item comes before any
\* write, and the order is stored before its payment is made: a request with an
\* item that fails validation writes nothing, a request whose order cannot be
\* stored gets no payment and no payment URL, and a payment is only added
\* together with, and for, the order the request has added
C26_ValidatePersistPay ==
    [][OrderStep
         => /\ (\E i \in 1..Len(req'.items) : ItemInvalid(req'.items[i]))
                 => /\ orders' = orders
                    /\ payments' = payments
                    /\ redsys_transactions' = redsys_transactions
                    /\ discount_codes' = discount_codes
                    /\ resp'.payment_url = ""
            /\ PersistenceFails(req')
                 => /\ orders' = orders
                    /\ payments' = payments
                    /\ redsys_transactions' = redsys_transactions
                    /\ resp'.payment_url = ""
            /\ payments' # payments
                 => /\ Len(orders') = Len(orders) + 1
                    /\ payments' = Append(payments, payments'[Len(payments')])
                    /\ payments'[Len(payments')].order_id = Len(orders')
                    /\ Len(redsys_transactions') = Len(redsys_transactions) + 1]_vars

\* the commit of the order failed, and neither order nor payment is stored
C26_Witness ==
    /\ req # NoReq /\ req.op = "create_order"
    /\ req.fault = FaultAt("order_commit", 0)
    /\ resp.status_code = 500 /\ resp.payment_url = ""
    /\ orders = << >> /\ payments = << >> /\ redsys_transactions = << >>

----------------------------------------------------------------------------
(* Properties of callback processing *)

\* the step in which the callback endpoint takes a request
CallbackStep == req = NoReq /\ req'.op = "callback"

\* the signature is the provider's signature of the parameters that came with it
Authentic(cb) == cb.ds_signature = Sign(SecretKey, cb.ds_merchant_parameters)

\* a database error meets the request
DatabaseError(cb) == cb.fault.at \in {"reduce_stock", "commit"}

\* C1: a callback whose signature does not verify changes no payment, order,
\* provider transaction or stock row, whatever response code it carries
C1_SignatureGate ==
    [][(CallbackStep /\ ~Authentic(req'))
          => UNCHANGED <<payments, orders, redsys_transactions, stock>>]_vars

\* the callback carries the approved code for the order reference of a
\* transaction that recorded the approved code before, and is processed for
\* that transaction, whose payment is completed
ReplayOfApproved ==
    /\ resp'.status_code = 200
    /\ req'.ds_merchant_parameters.Ds_Response = APPROVED
    /\ LET n == resp'.payment_id IN
         /\ payments[n].status = "completed"
         /\ redsys_transactions[n].ds_order = req'.ds_merchant_parameters.Ds_Order
         /\ redsys_transactions[n].response_ds_response = APPROVED

\* C2: processing an approved callback a second time leaves every stock row
\* unchanged and sends no further success notification
C2_ReplayIdempotent ==
    [][(CallbackStep /\ Authentic(req') /\ ReplayOfApproved)
          => (stock' = stock /\ emails' = emails)]_vars

RECURSIVE Demand(_, _, _)
\* the quantity the items of an order ask of one stock row
Demand(items, key, i) ==
    IF i > Len(items) THEN 0
    ELSE (IF <<items[i].product_id, items[i].size>> = key
          THEN items[i].quantity ELSE 0) + Demand(items, key, i + 1)

\* what an approved callback leaves behind for payment n
Settled(n) ==
    LET order_id == payments[n].order_id
        reference == redsys_transactions'[n].response_ds_transaction_id
    IN  /\ payments'[n].status = "completed"
        /\ orders'[order_id].payment_status = "captured"
        /\ orders'[order_id].status = "confirmed"
        /\ orders'[order_id].payment_reference = reference
        /\ payments'[n].provider_transaction_id = reference
        /\ \A key \in DOMAIN stock :
              LET demand == Demand(orders[order_id].items, key, 1) IN
                /\ stock'[key].stock_quantity >= 0
                /\ stock'[key].stock_quantity <= stock[key].stock_quantity
                /\ stock[key].stock_quantity >= demand
                      => /\ stock'[key].stock_quantity
                              = stock[key].stock_quantity - demand
                         /\ stock'[key].is_available
                              = (stock'[key].stock_quantity > 0)

C8_DeclinedFails ==
    [][(/\ CallbackStep
        /\ Authentic(req')
        /\ ~DatabaseError(req')
        /\ req'.ds_merchant_parameters.Ds_Response \notin {APPROVED, NoResponse}
        /\ req'.ds_merchant_parameters.Ds_Order \in DsOrders)
          => /\ resp'.status_code = 200
             /\ redsys_transactions[resp'.payment_id].ds_order
                    = req'.ds_merchant_parameters.Ds_Order
             /\ payments'[resp'.payment_id].status = "failed"
             /\ LET order_id == payments[resp'.payment_id].order_id IN
                  /\ orders'[order_id].payment_status = "failed"
                  /\ orders'[order_id].status = "cancelled"
             /\ stock' = stock
             /\ emails' = emails]_vars

\* a declined, verified callback has been answered: payment and order have
\* failed, the stock is the seeded stock and nothing was sent
C8_Witness ==
    /\ req # NoReq /\ req.op = "callback" /\ Authentic(req)
    /\ req.ds_merchant_parameters.Ds_Response = "0101"
    /\ req.fault = NoFault
    /\ resp.status_code = 200 /\ ~resp.approved
    /\ payments[resp.payment_id].status = "failed"
    /\ orders[payments[resp.payment_id].order_id].status = "cancelled"
    /\ orders[payments[resp.payment_id].order_id].payment_status = "failed"
    /\ stock = SeedStock
    /\ emails = << >>

\* C10: a payment's status leaves pending only for completed or failed, and a
\* completed or failed payment keeps its status in every later step
C10_TerminalStatus ==
    [][\A n \in 1..Len(payments) :
          /\ payments[n].status \in {"completed", "failed"}
                => payments'[n].status = payments[n].status
          /\ payments[n].status = "pending"
                => payments'[n].status \in {"pending", "completed", "failed"}]_vars

\* C11: an order that is captured and confirmed keeps its status, payment
\* status, payment reference and amounts in every later step
C11_PaidOrderImmutable ==
    [][\A o \in 1..Len(orders) :
          (orders[o].payment_status = "captured" /\ orders[o].status = "confirmed")
             => /\ orders'[o].status = orders[o].status
                /\ orders'[o].payment_status = orders[o].payment_status
                /\ orders'[o].payment_reference = orders[o].payment_reference
                /\ orders'[o].subtotal = orders[o].subtotal
                /\ orders'[o].discount_amount = orders[o].discount_amount
                /\ orders'[o].shipping_amount = orders[o].shipping_amount
                /\ orders'[o].tax_amount = orders[o].tax_amount
                /\ orders'[o].total_amount = orders[o].total_amount]_vars

RECURSIVE DemandExcept(_, _, _, _)
\* the quantity the items of an order but item number skip ask of a stock row
DemandExcept(items, key, skip, i) ==
    IF i > Len(items) THEN 0
    ELSE (IF i # skip /\ <<items[i].product_id, items[i].size>> = key
          THEN items[i].quantity ELSE 0) + DemandExcept(items, key, skip, i + 1)

\* the decrement of some item of the order fails: its stock row is missing,
\* holds too little, or the database raises an error inside its reduce_stock
DecrementFails(items, cb) ==
    \/ cb.fault.at = "reduce_stock" /\ cb.fault.item \in 1..Len(items)
    \/ /\ cb.fault.at \in {"none", "email"}
       /\ \E i \in 1..Len(items) :
             LET key == <<items[i].product_id, items[i].size>> IN
               \/ key \notin DOMAIN stock
               \/ stock[key].stock_quantity < Demand(items, key, 1)

\* C12: when the decrement of one item fails while an approved callback is
\* processed, the payment still ends completed and the order confirmed and
\* captured, and the other items still take their quantity from their rows
C12_DecrementFailureKeepsDecision ==
    [][(/\ CallbackStep
        /\ Authentic(req')
        /\ req'.fault.at # "commit"
        /\ req'.ds_merchant_parameters.Ds_Response = APPROVED
        /\ resp'.status_code = 200
        /\ DecrementFails(orders[payments[resp'.payment_id].order_id].items, req'))
          => LET n == resp'.payment_id
                 order_id == payments[n].order_id
                 items == orders[order_id].items
             IN  /\ payments'[n].status = "completed"
                 /\ orders'[order_id].status = "confirmed"
                 /\ orders'[order_id].payment_status = "captured"
                 /\ \A key \in DOMAIN stock :
                       LET demand == DemandExcept(items, key, req'.fault.item, 1) IN
                         stock[key].stock_quantity >= demand
                            => stock'[key].stock_quantity
                                  = stock[key].stock_quantity - demand]_vars

\* C14: the callback endpoint answers 200 only when the outcome of the callback
\* has been recorded and committed for its payment, and with any other answer
\* the payments, orders and provider transactions are what they were before
C14_AcknowledgeOnlyCommitted ==
    [][CallbackStep
          => /\ resp'.status_code = 200
                  => /\ payments'[resp'.payment_id].status \in {"completed", "failed"}
                     /\ redsys_transactions'[resp'.payment_id].signature_verified
             /\ resp'.status_code # 200
                  => /\ resp'.status_code >= 400
                     /\ payments' = payments
                     /\ orders' = orders
                     /\ redsys_transactions' = redsys_transactions]_vars

\* the callback comes without its parameters or without its signature
MissingField(cb) ==
    cb.ds_merchant_parameters.kind = "empty" \/ cb.ds_signature = NoSignature

\* the callback names an order reference that no provider transaction has
UnknownReference(cb) ==
    /\ cb.ds_merchant_parameters.kind = "json"
    /\ cb.ds_merchant_parameters.Ds_Order \notin DsOrders

\* C15: a callback without parameters or signature, or for an order reference
\* that no provider transaction has, is answered with an error status and
\* leaves payments, orders, provider transactions and stock unchanged; with a
\* field missing it is refused for that, before anything is decoded or verified
C15_MalformedOrUnknownRejected ==
    [][(CallbackStep /\ (MissingField(req') \/ UnknownReference(req')))
          => /\ resp'.status_code >= 400
             /\ UNCHANGED <<payments, orders, redsys_transactions, stock, emails>>
             /\ MissingField(req')
                   => resp'.detail = "Missing required callback parameters"]_vars

\* with a pending payment on record, a signed approved callback for an unknown
\* order reference was refused as not found
C15_Witness ==
    /\ req # NoReq /\ req.op = "callback"
    /\ UnknownReference(req) /\ Authentic(req)
    /\ req.ds_merchant_parameters.Ds_Response = APPROVED
    /\ resp.status_code = 400 /\ resp.detail = "Transaction not found"
    /\ Len(payments) = 1 /\ payments[1].status = "pending"
    /\ orders[1].status = "pending"
    /\ stock = SeedStock

\* the callback carries the approved code for a known order reference
ApprovedCallback(cb) ==
    /\ ~MissingField(cb)
    /\ cb.ds_merchant_parameters.kind = "json"
    /\ cb.ds_merchant_parameters.Ds_Response = APPROVED
    /\ cb.ds_merchant_parameters.Ds_Order \in DsOrders

\* C16: a success notification is handed over exactly when the callback is
\* approved and its signature verifies, and when the notification fails the
\* callback is still answered 200 with the payment completed and the order
\* confirmed and captured
C16_NotificationIffVerifiedApproved ==
    [][CallbackStep
          => /\ (emails' # emails) <=> (ApprovedCallback(req') /\ Authentic(req')
                                          /\ resp'.status_code = 200)
             /\ (ApprovedCallback(req') /\ Authentic(req')
                    /\ req'.fault = FaultAt("email", 0))
                  => /\ resp'.status_code = 200
                     /\ payments'[resp'.payment_id].status = "completed"
                     /\ orders'[payments[resp'.payment_id].order_id].status = "confirmed"
                     /\ orders'[payments[resp'.payment_id].order_id].payment_status
                            = "captured"]_vars

\* a payment is asked for an order that exists or not
PaymentStep == req = NoReq /\ req'.op = "create_payment"

\* C22: the creation of an order, the payment request it makes included, and
\* the creation of a payment leave every stock row as it was; a stock row
\* changes only in the processing of a callback that carries the approved code
C22_StockOnlyOnApproval ==
    [][/\ (OrderStep \/ PaymentStep) => stock' = stock
       /\ stock' # stock
            => /\ CallbackStep
               /\ req'.ds_merchant_parameters.Ds_Response = APPROVED]_vars

\* the tables a callback writes are what they were
NothingCommitted ==
    /\ payments' = payments
    /\ orders' = orders
    /\ redsys_transactions' = redsys_transactions
    /\ stock' = stock

\* payment n is completed and its order confirmed and captured
DecisionCommitted(n) ==
    /\ payments'[n].status = "completed"
    /\ orders'[payments'[n].order_id].status = "confirmed"
    /\ orders'[payments'[n].order_id].payment_status = "captured"

\* C23: what a callback writes is committed as a whole or not at all: when a
\* database error ends or interrupts the processing nothing of it is
\* committed, and stock rows never change without the approved response, the
\* completed payment and the confirmed order being committed with them
C23_CallbackAtomic ==
    [][CallbackStep
         => /\ DatabaseError(req') => NothingCommitted
            /\ stock' # stock
                 => \E n \in 1..Len(redsys_transactions') :
                       /\ redsys_transactions'[n].ds_order
                             = req'.ds_merchant_parameters.Ds_Order
                       /\ redsys_transactions'[n].response_ds_response = APPROVED
                       /\ DecisionCommitted(redsys_transactions'[n].payment_id)]_vars

\* the order of the notification handed over last
NotifiedOrder == emails'[Len(emails')]

\* C24: when a callback has handed over a success notification, its update is
\* committed: the notified order is confirmed and a payment of that order is
\* completed with a verified, approved transaction
C24_NotifyAfterCommit ==
    [][(CallbackStep /\ emails' # emails)
         => /\ orders'[NotifiedOrder].status = "confirmed"
            /\ \E n \in 1..Len(payments') :
                  /\ payments'[n].order_id = NotifiedOrder
                  /\ payments'[n].status = "completed"
                  /\ redsys_transactions'[n].signature_verified
                  /\ redsys_transactions'[n].response_ds_response = APPROVED]_vars

\* C25: signature_verified of a transaction turns true only in the processing
\* of a callback whose signature the RedirectClient has checked and found to
\* be the provider's
C25_VerifiedOnlyWhenChecked ==
    [][\A n \in 1..Len(redsys_transactions) :
          (redsys_transactions'[n].signature_verified
             /\ ~redsys_transactions[n].signature_verified)
            => (CallbackStep /\ client /\ Authentic(req'))]_vars

\* C27: a callback that is processed completes its payment only when it
\* carries the approved code "0000"; with any other code, listed or not, or
\* with none, it fails the payment, cancels the order, and changes no stock
\* row and sends no notification
C27_OnlyApprovedCodeApproves ==
    [][(CallbackStep /\ resp'.status_code = 200)
         => LET n == resp'.payment_id IN
            IF req'.ds_merchant_parameters.Ds_Response = APPROVED
            THEN resp'.approved /\ payments'[n].status = "completed"
            ELSE /\ ~resp'.approved
                 /\ payments'[n].status = "failed"
                 /\ orders'[payments'[n].order_id].status = "cancelled"
                 /\ orders'[payments'[n].order_id].payment_status = "failed"
                 /\ stock' = stock
                 /\ emails' = emails]_vars

\* C28: no two provider transactions have the same order reference, so the
\* reference of a callback stands for one transaction and its payment
C28_UniqueDsOrder ==
    \A m, n \in 1..Len(redsys_transactions) :
        m # n => redsys_transactions[m].ds_order # redsys_transactions[n].ds_order

\* the payments of an order that are still pending
PendingPayments(order_id) ==
    {n \in 1..Len(payments) :
        payments[n].order_id = order_id /\ payments[n].status = "pending"}

\* C29: no order has more than one pending payment
C29_OnePendingPayment ==
    \A o \in 1..Len(orders) : Cardinality(PendingPayments(o)) <= 1

\* C30: every order is pending with a pending payment status, confirmed with
\* a captured one, or cancelled with a failed one
C30_StatusPairs ==
    \A o \in 1..Len(orders) :
        <<orders[o].status, orders[o].payment_status>>
            \in {<<"pending", "pending">>, <<"confirmed", "captured">>,
                 <<"cancelled", "failed">>}

\* an approved callback whose second reduce_stock call met a database error
\* has left the order confirmed and captured
C30_Witness ==
    /\ req # NoReq /\ req.op = "callback"
    /\ req.fault = FaultAt("reduce_stock", 2)
    /\ Len(redsys_transactions) = 1
    /\ orders[1].status = "confirmed" /\ orders[1].payment_status = "captured"
    /\ payments[1].status = "completed"
    /\ stock[<<"p1", "8">>].stock_quantity = MaxStock - 1

----------------------------------------------------------------------------
(* Properties of concurrent stock reduction *)

RECURSIVE Removed(_, _)
\* the quantity taken from one stock row by the calls that returned True
Removed(key, w) ==
    IF w > Len(workers) THEN 0
    ELSE (IF /\ workers[w].pc = "returned" /\ workers[w].result
             /\ <<workers[w].call.product_id, workers[w].call.size>> = key
          THEN workers[w].call.quantity ELSE 0) + Removed(key, w + 1)

\* C3: under every interleaving of reduce_stock calls no stock row goes below
\* zero and the calls that returned True took no more from a row than it held
\* before the calls started
C3_NoLostUpdate ==
    \A key \in StockKeys :
        /\ stock[key].stock_quantity >= 0
        /\ Removed(key, 1) <= SeedStock[key].stock_quantity


----------------------------------------------------------------------------
(* Properties of concurrent discount applications *)

\* the calls that have applied the code c
Applied(c) ==
    {w \in 1..Len(workers) :
        workers[w].pc = "returned" /\ workers[w].result /\ workers[w].key = c}

\* C20: whatever the interleaving of the calls, a code with a usage cap is
\* applied at most max_uses times in all, and its current_uses has grown by
\* one for every call that applied it
C20_UsageCapHolds ==
    \A c \in DOMAIN discount_codes :
        discount_codes[c].max_uses # 0
          => /\ SeedCodes[c].current_uses + Cardinality(Applied(c))
                   <= discount_codes[c].max_uses
             /\ discount_codes[c].current_uses
                   = SeedCodes[c].current_uses + Cardinality(Applied(c))

----------------------------------------------------------------------------
(* Properties of the stock rows under calls made one after the other *)

\* the flag of every row says whether anything is left, and nothing is owed
FlagMatchesQuantity(rows) ==
    \A k \in DOMAIN rows :
        /\ rows[k].stock_quantity >= 0
        /\ rows[k].is_available = (rows[k].stock_quantity > 0)

====
